---- MODULE Spec2Model ----
(***************************************************************************)
(* Model of the query-routing and chat-turn pipeline of the multi-agent    *)
(* voice assistant:                                                        *)
(*   - OrchestratorAgent.route_query  (app/services/orchestrator.py)       *)
(*   - send_message / clear_session   (app/routers/chat.py)                *)
(*   - BaseSpecializedAgent.process_query and SpecializedAgentFactory      *)
(*                                    (app/services/specialized_agents.py) *)
(*   - VectorStoreService, the per-agent document index                    *)
(*                                    (app/services/vector_store.py)       *)
(*   - upload_document / reindex_agent_documents  (app/routers/rag.py)     *)
(*   - the startup event                          (main.py)                *)
(*                                                                         *)
(* Specifications: RouteSpec (route_query alone), Spec (chat turns in two  *)
(* request slots), SeqSpec (a client that awaits each response), StoreSpec *)
(* (the operations of VectorStoreService), IngestSpec (the ingestion       *)
(* handlers and restarts).                                                 *)
(*                                                                         *)
(* Texts are TLA+ strings; a classifier reply is a sequence of lexical     *)
(* tokens.  Handlers are split at their await points, which are the only   *)
(* places where the event loop can interleave two requests.                *)
(***************************************************************************)
EXTENDS Integers, Sequences, FiniteSets, TLC

VARIABLES
    rq,            \* one route_query call: position, query, reply, result
    sessions,      \* chat.py `sessions`: session id -> session object (0 = absent)
    heap,          \* the session objects
    turns,         \* the send_message calls in flight, one per request slot
    agent_cache,   \* SpecializedAgentFactory._agent_cache: names of built agents
    agent_stores,  \* per built agent: vector_stores of its own VectorStoreService
    disk,          \* persisted per-agent index (vector_store_path/*.pkl)
    issued,        \* session ids some response has returned to a client
    uuids,         \* number of uuid4 session ids generated so far
    started,       \* number of send_message calls started so far
    vector_stores, \* per VectorStoreService instance: self.vector_stores
    store_files,   \* vector_store_path: the persisted index of each agent
    last,          \* the last vector-store operation: its call and its outcome
    cleared,       \* agents cleared on the router's service, no add since
    removed,       \* <<agent, filename>> removed, not added again since
    ops,           \* number of vector-store operations so far
    dataset        \* dataset/<agent>/: the uploaded files of each agent

\* the state of the document index
store_vars == <<vector_stores, store_files, last, cleared, removed, ops,
                dataset>>

vars == <<rq, sessions, heap, turns, agent_cache, agent_stores, disk,
          issued, uuids, started, store_vars>>

-----------------------------------------------------------------------------
(* Bounds of the model *)

MaxReplyLen == 5

\* send_message calls made in one run
MaxTurns == 2

\* vector-store operations made in one run
MaxOps == 3

-----------------------------------------------------------------------------
(* Text helpers: str.lower() and the `in` substring test on str *)

LowerChar(c) ==
    CASE c = "A" -> "a" [] c = "B" -> "b" [] c = "C" -> "c" [] c = "D" -> "d"
      [] c = "E" -> "e" [] c = "F" -> "f" [] c = "G" -> "g" [] c = "H" -> "h"
      [] c = "I" -> "i" [] c = "J" -> "j" [] c = "K" -> "k" [] c = "L" -> "l"
      [] c = "M" -> "m" [] c = "N" -> "n" [] c = "O" -> "o" [] c = "P" -> "p"
      [] c = "Q" -> "q" [] c = "R" -> "r" [] c = "S" -> "s" [] c = "T" -> "t"
      [] c = "U" -> "u" [] c = "V" -> "v" [] c = "W" -> "w" [] c = "X" -> "x"
      [] c = "Y" -> "y" [] c = "Z" -> "z" [] OTHER -> c

RECURSIVE LowerFrom(_, _)
LowerFrom(s, i) ==
    IF i > Len(s) THEN "" ELSE LowerChar(SubSeq(s, i, i)) \o LowerFrom(s, i + 1)

str_lower(s) == LowerFrom(s, 1)

\* `keyword in text` on Python strings: keyword occurs as a substring
str_contains(keyword, text) ==
    \E i \in 1..(Len(text) - Len(keyword) + 1) :
        SubSeq(text, i, i + Len(keyword) - 1) = keyword

\* any(keyword in query_lower for keyword in keywords)
any_keyword_in(keywords, query_lower) ==
    \E keyword \in keywords : str_contains(keyword, query_lower)

-----------------------------------------------------------------------------
(* route_query: the keyword lists *)

general_keywords ==
    {"weather", "temperature", "forecast", "rain", "sunny",
     "calculate", "math", "time", "timezone", "what time",
     "hello", "hi", "how are you", "thank"}

medical_keywords ==
    {"sick", "ill", "pain", "symptom", "disease", "health",
     "medical", "doctor", "medicine", "treatment", "diagnosis"}

ai_keywords ==
    {"ai", "ml", "machine learning", "neural", "deep learning",
     "model", "algorithm", "training", "dataset", "tensorflow",
     "pytorch", "scikit", "nlp", "computer vision"}

real_estate_keywords ==
    {"property", "house", "apartment", "real estate",
     "mortgage", "rent", "buy house", "sell house"}

sales_keywords ==
    {"sales", "customer", "client", "revenue", "deal",
     "lead", "crm", "pipeline", "quota", "prospect"}

education_keywords ==
    {"learn", "study", "education", "course", "teach",
     "school", "university", "exam", "homework", "curriculum"}

valid_agents == {"general", "real_estate", "medical", "ai_ml", "sales", "education"}

\* mutant of query_lower_of: the keywords are tested against the query as typed
query_lower_of_as_typed(query) == query

\* line 71: query_lower = query.lower()
query_lower_of(query) == str_lower(query)

\* mutant of route_keywords: the sales list is tested before the ai_ml list
route_keywords_sales_early(query) ==
    LET query_lower == query_lower_of(query) IN
    IF any_keyword_in(general_keywords, query_lower) THEN "general"
    ELSE IF any_keyword_in(medical_keywords, query_lower) THEN "medical"
    ELSE IF any_keyword_in(sales_keywords, query_lower) THEN "sales"
    ELSE IF any_keyword_in(ai_keywords, query_lower) THEN "ai_ml"
    ELSE IF any_keyword_in(real_estate_keywords, query_lower) THEN "real_estate"
    ELSE IF any_keyword_in(education_keywords, query_lower) THEN "education"
    ELSE ""

\* lines 66-112: the keyword checks, in the order the code makes them; "" when
\* no list has a hit (the code then falls through to the classifier)
route_keywords(query) ==
    LET query_lower == query_lower_of(query) IN
    IF any_keyword_in(general_keywords, query_lower) THEN "general"
    ELSE IF any_keyword_in(medical_keywords, query_lower) THEN "medical"
    ELSE IF any_keyword_in(ai_keywords, query_lower) THEN "ai_ml"
    ELSE IF any_keyword_in(real_estate_keywords, query_lower) THEN "real_estate"
    ELSE IF any_keyword_in(sales_keywords, query_lower) THEN "sales"
    ELSE IF any_keyword_in(education_keywords, query_lower) THEN "education"
    ELSE ""

-----------------------------------------------------------------------------
(* route_query: parsing the classifier's reply.                            *)
(* A reply is a sequence of tokens: "{" and "}" are the brace characters,  *)
(* "c" is a stretch of commentary without braces, and a member token is a  *)
(* complete  "key": value  pair of a JSON object (separating commas are    *)
(* part of the tokens).                                                    *)

MemberTokens == {"pa:medical", "pa:sales", "pa:bogus", "conf"}

ReplyTokens == {"{", "}", "c"} \cup MemberTokens

\* the value a member token gives to the key primary_agent ("" = other key)
PrimaryAgentOf(tok) ==
    CASE tok = "pa:medical" -> "medical"
      [] tok = "pa:sales"   -> "sales"
      [] tok = "pa:bogus"   -> "bogus"
      [] OTHER              -> ""

Positions(text, tok) == {i \in 1..Len(text) : text[i] = tok}

SetMin(S) == CHOOSE x \in S : \A y \in S : x <= y
SetMax(S) == CHOOSE x \in S : \A y \in S : x >= y

\* line 125: re.search(r'\{.*\}', response_text, re.DOTALL).  The leftmost match
\* starts at the first "{"; ".*" is greedy and, with DOTALL, runs to the last
\* "}" of the text.  << >> stands for None (no match).
re_search_braces(response_text) ==
    LET opens  == Positions(response_text, "{")
        closes == Positions(response_text, "}")
    IN  IF opens = {} \/ closes = {} \/ SetMax(closes) < SetMin(opens)
        THEN << >>
        ELSE SubSeq(response_text, SetMin(opens), SetMax(closes))

\* line 127: json.loads accepts the text iff it is one JSON object
json_is_object(text) ==
    /\ Len(text) >= 2
    /\ text[1] = "{"
    /\ text[Len(text)] = "}"
    /\ \A i \in 2..(Len(text) - 1) : text[i] \in MemberTokens

\* line 133: routing_decision.get("primary_agent", "general"); of a repeated
\* key json.loads keeps the last value
dict_get_primary_agent(text) ==
    LET having == {i \in 2..(Len(text) - 1) : PrimaryAgentOf(text[i]) # ""}
    IN  IF having = {} THEN "general" ELSE PrimaryAgentOf(text[SetMax(having)])

\* mutant of validate_agent: the parsed name is returned unchecked
validate_agent_unchecked(primary_agent) == primary_agent

\* lines 139-145: the parsed name is returned only when it is a known agent
validate_agent(primary_agent) ==
    IF primary_agent \notin valid_agents THEN "general" ELSE primary_agent

\* lines 119-149: from the classifier's reply to the returned agent name
route_from_reply(response_text) ==
    LET json_match == re_search_braces(response_text) IN
    IF json_match = << >> THEN "general"                     \* lines 128-131
    ELSE IF ~json_is_object(json_match) THEN "general"       \* lines 147-149
    ELSE validate_agent(dict_get_primary_agent(json_match))

\* lines 151-153: an exception anywhere in route_query is caught and answered
\* with "general"
route_on_exception == [pc |-> "returned", result |-> "general"]

-----------------------------------------------------------------------------
(* Inputs *)

\* sample queries: one or two per keyword list, mixed hits, upper case, and
\* queries that hit no list
Queries ==
    {"What is the weather in Dhaka?", "HELLO", "Is rain making me sick?",
     "Doctor, my house gives me a headache", "Neural nets boost revenue",
     "Explain machine learning", "Buy house or study", "Sell house to a client",
     "Customer quota per course", "Best university exam",
     "Tell me a joke", "Who wrote Dune?"}

\* every token sequence of at most MaxReplyLen tokens
Replies == UNION {[1..n -> ReplyTokens] : n \in 0..MaxReplyLen}

\* the classifier replies drawn while a chat turn is routed (the whole set
\* Replies is explored under RouteSpec)
SampleReplies ==
    { <<"c", "{", "pa:medical", "}">>, <<"{", "pa:bogus", "}">>,
      <<"{", "pa:medical", "}", "}">> }

\* messages sent to /api/chat/send
ChatQueries == {"Buy house or study", "Tell me a joke"}

\* request.agent_override: absent, a known agent, an unknown name
Overrides == {"", "medical", "bogus"}

\* request.include_sources: left at its default (chat.py line 40)
IncludeSources == {TRUE}

\* specialized_agents.py lines 130-133: response["output"], the answer the
\* reasoning step produces for an input; the model names it after its input
AnswerTo(input) == "Answer to: " \o input

\* chunks a document can be split into
Chunks == {"chunk-1"}

\* the agents documents are uploaded for in the model
UploadAgents == {"medical"}

\* request slots: the send_message calls that can be in flight together; a
\* new call takes the first free slot
Procs == {1, 2}

\* session ids: None, ids a client makes up, ids made by uuid.uuid4()
NoSessionId == [kind |-> "none", n |-> 0]
ClientIds == {[kind |-> "client", n |-> 1]}
Uuid4(n) == [kind |-> "uuid4", n |-> n]

\* rag.py line 70: the agents documents can be uploaded for
RagAgents == {"real_estate", "medical", "ai_ml", "sales", "education"}

-----------------------------------------------------------------------------
(* The document index: values and inputs *)

\* langchain Document: page_content and metadata["filename"]
Document(page_content, filename) ==
    [page_content |-> page_content, filename |-> filename]

\* what document_loader.load_single_document makes of two uploaded files
ChunksOfFile(filename) ==
    CASE filename = "a.txt" -> << Document("A1", "a.txt"), Document("A2", "a.txt") >>
      [] filename = "b.txt" -> << Document("B1", "b.txt") >>
      [] OTHER -> << >>

Filenames == {"a.txt", "b.txt"}

\* the `documents` argument of add_documents: a file's chunks, or no chunk
DocumentLists == {<< >>} \cup {ChunksOfFile(f) : f \in Filenames}

\* the agents whose index the model follows
StoreAgents == {"medical", "sales"}

\* the agent names search is called with: indexed agents and an unknown name
SearchAgents == StoreAgents \cup {"nobody"}

\* VectorStoreService instances: rag.py line 24 makes the router's; each
\* built agent has its own (specialized_agents.py line 37), named after it
RouterService == "rag"
Services == {RouterService} \cup StoreAgents

\* queries sent to search; scores are in tenths (7 stands for 0.7)
StoreQueries == {"about a", "about b"}
Ks == {1, 2, 3}
Thresholds == {0, 7, 9}

\* the score the backend gives a chunk for a query: FAISS built by
\* from_documents with the default strategy scores by L2 distance between
\* the embeddings, so a closer chunk has a LOWER score
Distance(query, page_content) ==
    CASE query = "about a" /\ page_content = "A1" -> 3
      [] query = "about a" /\ page_content = "A2" -> 8
      [] query = "about a" /\ page_content = "B1" -> 12
      [] query = "about b" /\ page_content = "A1" -> 11
      [] query = "about b" /\ page_content = "A2" -> 9
      [] query = "about b" /\ page_content = "B1" -> 2
      [] OTHER -> 20

\* self.vector_stores[agent]: no key, a key holding None, a FAISS store
NoStore == [kind |-> "absent", docs |-> << >>]
NoneStore == [kind |-> "none", docs |-> << >>]
Faiss(docs) == [kind |-> "faiss", docs |-> docs]

\* <agent>.pkl / <agent>.faiss under vector_store_path: missing, written by
\* save_local, or present but unreadable
NoFile == [kind |-> "absent", docs |-> << >>]
CorruptFile == [kind |-> "corrupt", docs |-> << >>]
SavedFile(docs) == [kind |-> "saved", docs |-> docs]

NoOp ==
    [op |-> "none", service |-> "", agent |-> "", query |-> "", k |-> 0,
     threshold |-> 0, documents |-> << >>, filename |-> "", failure |-> "",
     raised |-> FALSE, results |-> << >>, count |-> 0, before |-> NoStore,
     before_file |-> NoFile, status |-> "", input |-> ""]

\* dataset/<agent>: no such directory; a directory with files
NoDirectory == [exists |-> FALSE, files |-> {}]
Directory(files) == [exists |-> TRUE, files |-> files]

IndexInit ==
    /\ vector_stores = [s \in Services |-> [a \in StoreAgents |-> NoStore]]
    /\ store_files = [a \in StoreAgents |-> NoFile]
    /\ last = NoOp
    /\ cleared = {}
    /\ removed = {}
    /\ ops = 0
    /\ dataset = [a \in StoreAgents |-> NoDirectory]

-----------------------------------------------------------------------------
(* The chat state: values and initial state *)

NoSnapshot == [exists |-> FALSE, message_count |-> 0, agents_used |-> << >>,
               memory |-> << >>]

\* a request slot with no call in it
NoTurn ==
    [pc |-> "idle", message |-> "", session_id |-> NoSessionId, fresh |-> FALSE,
     agent_override |-> "", include_sources |-> FALSE, session |-> 0,
     selected_agent |-> "", routed |-> FALSE, agent |-> "", input |-> "",
     agent_outcome |-> "", status |-> "", response |-> "", agent_used |-> "",
     before |-> NoSnapshot]

\* chat.py lines 76-81: a new session; ok_turns and err_turns are history
\* variables counting the calls on this session that ended well and badly
NewSession ==
    [message_count |-> 0, agents_used |-> << >>, memory |-> << >>,
     ok_turns |-> 0, err_turns |-> 0]

ChatInit ==
    /\ sessions = [x \in {} |-> 0]
    /\ heap = << >>
    /\ turns = [p \in Procs |-> NoTurn]
    /\ agent_cache = {}
    /\ agent_stores = [a \in valid_agents |-> {}]
    /\ disk = [a \in RagAgents |-> {}]
    /\ issued = {}
    /\ uuids = 0
    /\ started = 0
    /\ IndexInit

chat_vars == <<sessions, heap, turns, agent_cache, agent_stores, disk,
               issued, uuids, started>>

-----------------------------------------------------------------------------
(* route_query as a state machine of its own: one call at a time, the      *)
(* query drawn from Queries and the classifier's reply from Replies        *)

RouteCall(query) ==
    [pc |-> "call", query |-> query, reply |-> << >>, raised |-> FALSE,
     result |-> "", llm_calls |-> 0]

RouteIdle == [RouteCall("") EXCEPT !.pc = "unused"]

\* lines 66-112: a keyword hit returns before the classifier is built or called
RouteFastPath ==
    /\ rq.pc = "call"
    /\ route_keywords(rq.query) # ""
    /\ rq' = [rq EXCEPT !.pc = "returned", !.result = route_keywords(rq.query)]
    /\ UNCHANGED <<chat_vars, store_vars>>

\* lines 114-116: no hit: await self.llm.ainvoke(messages)
RouteInvokeClassifier ==
    /\ rq.pc = "call"
    /\ route_keywords(rq.query) = ""
    /\ rq' = [rq EXCEPT !.pc = "awaiting", !.llm_calls = @ + 1]
    /\ UNCHANGED <<chat_vars, store_vars>>

\* lines 119-149: the classifier answered
RouteClassifierReplies ==
    /\ rq.pc = "awaiting"
    /\ \E response_text \in Replies :
          rq' = [rq EXCEPT !.pc = "returned", !.reply = response_text,
                           !.result = route_from_reply(response_text)]
    /\ UNCHANGED <<chat_vars, store_vars>>

\* lines 116, 151-153: ainvoke raised (timeout, transport error)
RouteClassifierRaises ==
    /\ rq.pc = "awaiting"
    /\ rq' = [rq EXCEPT !.raised = TRUE, !.pc = route_on_exception.pc,
                        !.result = route_on_exception.result]
    /\ UNCHANGED <<chat_vars, store_vars>>

\* the caller has the result; the same query is routed again (route_query
\* keeps no state between calls, so calls with other queries are the other
\* initial states)
RouteCallAgain ==
    /\ rq.pc \in {"returned", "raised"}
    /\ rq' = RouteCall(rq.query)
    /\ UNCHANGED <<chat_vars, store_vars>>

RouteInit ==
    /\ rq \in {RouteCall(query) : query \in Queries}
    /\ ChatInit

RouteNext ==
    \/ RouteFastPath
    \/ RouteInvokeClassifier
    \/ RouteClassifierReplies
    \/ RouteClassifierRaises
    \/ RouteCallAgain

RouteSpec == RouteInit /\ [][RouteNext]_vars

-----------------------------------------------------------------------------
(* Claims about route_query, checked under RouteSpec *)

\* the reply has no "{" with a "}" somewhere after it
NoBraceDelimitedText(reply) ==
    ~ \E i, j \in 1..Len(reply) : i < j /\ reply[i] = "{" /\ reply[j] = "}"

\* the classifier was consulted and gave nothing usable: it raised, or the
\* reply holds no brace-delimited text, or the extracted text is not JSON, or
\* the parsed primary_agent is not a known identity
ClassifierUnusable ==
    /\ rq.llm_calls > 0
    /\ rq.pc \in {"returned", "raised"}
    /\ \/ rq.raised
       \/ NoBraceDelimitedText(rq.reply)
       \/ ~json_is_object(re_search_braces(rq.reply))
       \/ dict_get_primary_agent(re_search_braces(rq.reply)) \notin valid_agents

\* C1: whenever the classifier call raises, or its reply contains no
\* brace-delimited JSON object, or the extracted text is not valid JSON, or the
\* parsed primary_agent is not one of the six identities, route_query returns
\* "general" and no exception escapes to the caller.
C1_ClassifierFallback ==
    ClassifierUnusable => rq.pc = "returned" /\ rq.result = "general"

C1_Witness_Raised ==
    /\ rq.pc = "returned" /\ rq.raised /\ rq.llm_calls = 1
    /\ rq.result = "general"

HitsGeneral ==
    [query \in Queries |-> any_keyword_in(general_keywords, str_lower(query))]

\* C2: a query whose lower-cased text contains a keyword of the general list is
\* answered "general" on every call, and the classifier is not invoked during
\* that call (neither before the return nor while the call is in progress).
C2_GeneralFastPath ==
    HitsGeneral[rq.query] =>
        /\ rq.llm_calls = 0
        /\ rq.pc # "awaiting"
        /\ rq.pc \in {"returned", "raised"} =>
              rq.pc = "returned" /\ rq.result = "general"

C2_Witness_UpperCaseHello ==
    /\ rq.query = "HELLO" /\ rq.pc = "returned"
    /\ rq.result = "general" /\ rq.llm_calls = 0

\* the six keyword lists in the order the claim gives them
ClaimedOrder ==
    << [agent |-> "general",     keywords |-> general_keywords],
       [agent |-> "medical",     keywords |-> medical_keywords],
       [agent |-> "ai_ml",       keywords |-> ai_keywords],
       [agent |-> "real_estate", keywords |-> real_estate_keywords],
       [agent |-> "sales",       keywords |-> sales_keywords],
       [agent |-> "education",   keywords |-> education_keywords] >>

HitTable ==
    [query \in Queries |->
        {i \in 1..Len(ClaimedOrder) :
            any_keyword_in(ClaimedOrder[i].keywords, str_lower(query))}]

HitLists(query) == HitTable[query]

\* C3: a query that hits one or more keyword lists is answered with the
\* identity of the earliest hit list in the order general, medical, ai_ml,
\* real_estate, sales, education, and the classifier is consulted only when no
\* list has a hit.
C3_FirstHitWins ==
    /\ rq.llm_calls > 0 => HitLists(rq.query) = {}
    /\ (rq.pc \in {"returned", "raised"} /\ HitLists(rq.query) # {}) =>
          /\ rq.pc = "returned"
          /\ rq.result = ClaimedOrder[SetMin(HitLists(rq.query))].agent

\* a real_estate answer for a query that also hits the later education list
C3_Witness_EarlierOfTwo ==
    /\ rq.pc = "returned" /\ rq.result = "real_estate"
    /\ HitLists(rq.query) = {4, 6}

\* the first JSON object found in the reply: among the stretches of the reply
\* that are a well-formed object, the one that starts leftmost
JsonObjectsIn(reply) ==
    {ij \in (1..Len(reply)) \X (1..Len(reply)) :
        ij[1] < ij[2] /\ json_is_object(SubSeq(reply, ij[1], ij[2]))}

FirstJsonObjectAt(reply) ==
    CHOOSE x \in JsonObjectsIn(reply) : \A y \in JsonObjectsIn(reply) : x[1] <= y[1]

FirstJsonObject(reply) ==
    SubSeq(reply, FirstJsonObjectAt(reply)[1], FirstJsonObjectAt(reply)[2])

\* what precedes the first JSON object is commentary without braces
PlainCommentaryBefore(reply) ==
    \A i \in 1..(FirstJsonObjectAt(reply)[1] - 1) : reply[i] = "c"

\* C4: when no keyword matches and the reply contains a well-formed JSON object
\* whose primary_agent is one of the six identities, route_query returns the
\* primary_agent of the first JSON object found in the reply, whatever text
\* surrounds it: commentary before it, and after it commentary, further
\* braces or a second object.
C4_FirstJsonObjectWins ==
    (/\ rq.pc = "returned" /\ rq.llm_calls > 0 /\ ~rq.raised
     /\ JsonObjectsIn(rq.reply) # {}
     /\ PlainCommentaryBefore(rq.reply)
     /\ dict_get_primary_agent(FirstJsonObject(rq.reply)) \in valid_agents)
    => rq.result = dict_get_primary_agent(FirstJsonObject(rq.reply))

-----------------------------------------------------------------------------
(* The chat turn: send_message, the agent factory and process_query.       *)
(* One call runs from its start to its first await in one step: with an    *)
(* override or a keyword hit that is up to agent.ainvoke, otherwise up to  *)
(* the classifier's llm.ainvoke.                                           *)

\* specialized_agents.py lines 349-356: the names the factory can build
factory_agents ==
    {"general", "real_estate", "medical", "ai_ml", "sales", "education"}

\* specialized_agents.py line 106: k=5
search_k == 5

Range(seq) == {seq[i] : i \in 1..Len(seq)}

Smaller(a, b) == IF a < b THEN a ELSE b

\* vector_store.py lines 36-44, run by VectorStoreService() in the agent's
\* constructor (specialized_agents.py line 37): the agent's own copy of the
\* persisted index of its name
load_existing_store(agent_name) ==
    IF agent_name \in DOMAIN disk THEN disk[agent_name] ELSE {}

\* vector_store.py lines 130-151: nothing for an agent without a store; else at
\* most k chunks of the store, those whose score passes the threshold, in the
\* backend's order.  The scores come from the embedding service, so every
\* selection and order is possible.  search catches its own exceptions.
SearchResults(store, k) ==
    {r \in UNION {[1..n -> store] : n \in 0..Smaller(k, Cardinality(store))} :
        \A i, j \in 1..Len(r) : i # j => r[i] # r[j]}

\* specialized_agents.py lines 109-117
RECURSIVE context_lines(_)
context_lines(search_results) ==
    IF search_results = << >> THEN ""
    ELSE "\n- " \o Head(search_results) \o "..." \o context_lines(Tail(search_results))

context_of(search_results) ==
    IF search_results = << >> THEN ""
    ELSE "\n\nRelevant information from knowledge base:\n" \o context_lines(search_results)

\* specialized_agents.py lines 119-122
enhanced_query_of(query, context) ==
    IF context # "" THEN query \o "\n" \o context ELSE query

\* mutant of memory_after_turn: the new pair is put in front of the history
memory_after_turn_newest_first(messages, query, enhanced_query, output) ==
    << [type |-> "human", content |-> query],
       [type |-> "ai", content |-> output] >> \o messages

\* mutant of memory_after_turn: the user entry is the context-augmented query
memory_after_turn_enhanced(messages, query, enhanced_query, output) ==
    messages \o << [type |-> "human", content |-> enhanced_query],
                   [type |-> "ai", content |-> output] >>

\* specialized_agents.py lines 135-138: add_user_message(query), then
\* add_ai_message(response["output"])
memory_after_turn(messages, query, enhanced_query, output) ==
    messages \o << [type |-> "human", content |-> query],
                   [type |-> "ai", content |-> output] >>

\* mutant of message_count_after: a count read before is written back
message_count_after_reset(message_count) == 1

\* mutant of message_count_after: the message is not counted
message_count_after_forgotten(message_count) == message_count

\* chat.py line 84: session["message_count"] += 1
message_count_after(message_count) == message_count + 1

\* mutant of uses_override: the override is never looked at
uses_override_never(agent_override) == FALSE

\* chat.py line 89: if request.agent_override (None and "" are both false)
uses_override(agent_override) == agent_override # ""

\* chat.py lines 146-148: any exception becomes HTTPException(500)
http_500(turn) == [turn EXCEPT !.pc = "done", !.status = "error"]

\* mutant of turn_after_agent_raises: process_query swallows the exception and
\* returns an empty answer
turn_after_agent_raises_swallowed(turn) ==
    [turn EXCEPT !.pc = "done", !.agent_outcome = "raised", !.status = "ok",
                 !.agent_used = turn.selected_agent]

\* specialized_agents.py lines 147-149 (log and re-raise), then chat.py
\* lines 146-148
turn_after_agent_raises(turn) ==
    http_500([turn EXCEPT !.agent_outcome = "raised"])

\* chat.py lines 137-144: the ChatResponse
turn_after_agent_returns(turn, output) ==
    [turn EXCEPT !.pc = "done", !.agent_outcome = "answered", !.status = "ok",
                 !.response = output, !.agent_used = turn.selected_agent]

\* mutant of is_cached: the cache is never hit
is_cached_never(agent_name, cache) == FALSE

\* specialized_agents.py line 375: if agent_name not in self._agent_cache
is_cached(agent_name, cache) == agent_name \in cache

\* mutant of session_of_memory: one memory serves every session
session_of_memory_shared(turn) == 1

\* chat.py line 111: memory=session["memory"], the memory of the session
\* object the call looked up at its start
session_of_memory(turn) == turn.session

\* mutant of clear_session: success is reported, the entry stays
clear_session_kept(session_id, sessions_in) ==
    IF session_id \in DOMAIN sessions_in
    THEN [status |-> "success", sessions |-> sessions_in]
    ELSE [status |-> "not_found", sessions |-> sessions_in]

\* chat.py lines 161-166
clear_session(session_id, sessions_in) ==
    IF session_id \in DOMAIN sessions_in
    THEN [status |-> "success",
          sessions |-> [x \in DOMAIN sessions_in \ {session_id} |-> sessions_in[x]]]
    ELSE [status |-> "not_found", sessions |-> sessions_in]

\* chat.py lines 172-183: the ids list_sessions reports
list_sessions == DOMAIN sessions

SnapshotOf(session_id) ==
    IF session_id \in DOMAIN sessions
    THEN [exists |-> TRUE,
          message_count |-> heap[sessions[session_id]].message_count,
          agents_used |-> heap[sessions[session_id]].agents_used,
          memory |-> heap[sessions[session_id]].memory]
    ELSE NoSnapshot

\* chat.py lines 100-113 and specialized_agents.py lines 97-133: track the
\* agent, get it from the factory (building it on first use), retrieve, and
\* start the reasoning step
Dispatch(p, turn, heap_in) ==
    LET selected_agent == turn.selected_agent
        session == turn.session
        tracked == [heap_in EXCEPT ![session].agents_used =
                       IF selected_agent \in Range(@) THEN @
                       ELSE Append(@, selected_agent)]
    IN  IF selected_agent \notin factory_agents
        THEN \* get_agent raises ValueError (specialized_agents.py 371-372)
             /\ heap' = [tracked EXCEPT ![session].err_turns = @ + 1]
             /\ turns' = [turns EXCEPT ![p] = http_500(turn)]
             /\ UNCHANGED <<agent_cache, agent_stores>>
        ELSE /\ agent_cache' = agent_cache \cup {selected_agent}
             /\ agent_stores' =
                   IF is_cached(selected_agent, agent_cache) THEN agent_stores
                   ELSE [agent_stores EXCEPT
                            ![selected_agent] = load_existing_store(selected_agent)]
             /\ heap' = tracked
             /\ \E search_results \in
                      (IF turn.include_sources
                       THEN SearchResults(agent_stores'[selected_agent], search_k)
                       ELSE {<< >>}) :
                   turns' = [turns EXCEPT ![p] =
                       [turn EXCEPT !.pc = "await_agent", !.agent = selected_agent,
                                    !.input = enhanced_query_of(turn.message,
                                                  context_of(search_results))]]

\* chat.py lines 72-98: create or retrieve the session, count the message,
\* pick the agent; continues into Dispatch unless the classifier is awaited
SendMessage(p, message, request_session_id, agent_override, include_sources) ==
    /\ turns[p].pc = "idle"
    /\ \A q \in Procs : q < p => turns[q].pc # "idle"
    /\ started < MaxTurns
    /\ LET session_id == IF request_session_id # NoSessionId
                         THEN request_session_id ELSE Uuid4(uuids + 1)
           is_new == session_id \notin DOMAIN sessions
           session == IF is_new THEN Len(heap) + 1 ELSE sessions[session_id]
           created == IF is_new THEN Append(heap, NewSession) ELSE heap
           counted == [created EXCEPT ![session].message_count =
                                         message_count_after(@)]
           turn == [NoTurn EXCEPT !.message = message, !.session_id = session_id,
                                  !.fresh = (request_session_id = NoSessionId),
                                  !.agent_override = agent_override,
                                  !.include_sources = include_sources,
                                  !.session = session,
                                  !.before = SnapshotOf(session_id)]
       IN  /\ sessions' = IF is_new THEN sessions @@ (session_id :> session)
                          ELSE sessions
           /\ uuids' = IF request_session_id = NoSessionId THEN uuids + 1 ELSE uuids
           /\ started' = started + 1
           /\ IF uses_override(agent_override)
              THEN Dispatch(p, [turn EXCEPT !.selected_agent = agent_override],
                            counted)
              ELSE IF route_keywords(message) # ""
              THEN Dispatch(p, [turn EXCEPT !.routed = TRUE,
                                   !.selected_agent = route_keywords(message)],
                            counted)
              ELSE /\ turns' = [turns EXCEPT ![p] =
                          [turn EXCEPT !.routed = TRUE, !.pc = "await_classifier"]]
                   /\ heap' = counted
                   /\ UNCHANGED <<agent_cache, agent_stores>>
    /\ UNCHANGED <<store_vars, rq, disk, issued>>

\* orchestrator.py lines 116-149 and chat.py lines 96-113: the classifier
\* answered; the turn goes on to its agent
ClassifierReplies(p, response_text) ==
    /\ turns[p].pc = "await_classifier"
    /\ Dispatch(p, [turns[p] EXCEPT !.selected_agent = route_from_reply(response_text)],
                heap)
    /\ UNCHANGED <<store_vars, rq, sessions, disk, issued, uuids, started>>

\* orchestrator.py lines 151-153 and chat.py lines 96-113: the classifier call
\* raised; route_query answers "general" and the turn goes on
ClassifierRaises(p) ==
    /\ turns[p].pc = "await_classifier"
    /\ Dispatch(p, [turns[p] EXCEPT !.selected_agent = route_on_exception.result],
                heap)
    /\ UNCHANGED <<store_vars, rq, sessions, disk, issued, uuids, started>>

\* specialized_agents.py lines 130-145 and chat.py lines 114-144: the reasoning
\* step returned; the memory passed to process_query is the one of the session
\* object the call looked up at its start
AgentReturns(p) ==
    /\ turns[p].pc = "await_agent"
    /\ heap' = [heap EXCEPT
                  ![session_of_memory(turns[p])].memory =
                      memory_after_turn(@, turns[p].message, turns[p].input,
                                        AnswerTo(turns[p].input)),
                  ![turns[p].session].ok_turns = @ + 1]
    /\ turns' = [turns EXCEPT ![p] =
                    turn_after_agent_returns(turns[p], AnswerTo(turns[p].input))]
    /\ UNCHANGED <<store_vars, rq, sessions, agent_cache, agent_stores, disk, issued, uuids,
                   started>>

\* specialized_agents.py lines 130, 147-149 and chat.py lines 146-148: the
\* reasoning step raised
AgentRaises(p) ==
    /\ turns[p].pc = "await_agent"
    /\ heap' = [heap EXCEPT ![turns[p].session].err_turns = @ + 1]
    /\ turns' = [turns EXCEPT ![p] = turn_after_agent_raises(turns[p])]
    /\ UNCHANGED <<store_vars, rq, sessions, agent_cache, agent_stores, disk, issued, uuids,
                   started>>

\* a session object that neither the session map nor a call in flight refers
\* to is gone (reference counting frees it)
Freed == [NewSession EXCEPT !.message_count = -1]

Collect(heap_in, sessions_in, turns_in) ==
    [o \in DOMAIN heap_in |->
        IF \/ \E x \in DOMAIN sessions_in : sessions_in[x] = o
           \/ \E q \in Procs : turns_in[q].session = o
        THEN heap_in[o] ELSE Freed]

\* the client has the response; a ChatResponse tells it the session id
Finish(p) ==
    /\ turns[p].pc = "done"
    /\ issued' = IF turns[p].status = "ok" THEN issued \cup {turns[p].session_id}
                 ELSE issued
    /\ turns' = [turns EXCEPT ![p] = NoTurn]
    /\ heap' = Collect(heap, sessions, turns')
    /\ UNCHANGED <<store_vars, rq, sessions, agent_cache, agent_stores, disk, uuids,
                   started>>

\* chat.py lines 150-170: clear_session; for an id that is not in the map
\* nothing changes and "not_found" is answered
ClearSession(session_id) ==
    /\ sessions' = clear_session(session_id, sessions).sessions
    /\ heap' = Collect(heap, sessions', turns)
    /\ UNCHANGED <<store_vars, rq, turns, agent_cache, agent_stores, disk, issued, uuids,
                   started>>

\* rag.py lines 100-105 and vector_store.py lines 90-105: an uploaded
\* document's chunks are added to the agent's index, which is saved
UploadDocument(agent, chunk) ==
    /\ disk' = [disk EXCEPT ![agent] = @ \cup {chunk}]
    /\ UNCHANGED <<store_vars, rq, sessions, heap, turns, agent_cache, agent_stores, issued,
                   uuids, started>>

\* the session ids a client can send: made up, or learnt from a response
KnownIds == ClientIds \cup issued

Init ==
    /\ rq = RouteIdle
    /\ ChatInit

Next ==
    \/ \E p \in Procs, message \in ChatQueries,
          request_session_id \in KnownIds \cup {NoSessionId},
          agent_override \in Overrides, include_sources \in IncludeSources :
          SendMessage(p, message, request_session_id, agent_override,
                      include_sources)
    \/ \E p \in Procs, response_text \in SampleReplies :
          ClassifierReplies(p, response_text)
    \/ \E p \in Procs : ClassifierRaises(p)
    \/ \E p \in Procs : AgentReturns(p)
    \/ \E p \in Procs : AgentRaises(p)
    \/ \E p \in Procs : Finish(p)
    \/ \E session_id \in KnownIds : ClearSession(session_id)
    \/ \E agent \in UploadAgents, chunk \in Chunks : UploadDocument(agent, chunk)

Spec == Init /\ [][Next]_vars

-----------------------------------------------------------------------------
(* Claims about the chat turn, checked under Spec *)

InFlight(p) == turns[p].pc \in {"await_classifier", "await_agent"}

IsPrefix(a, b) == Len(a) <= Len(b) /\ SubSeq(b, 1, Len(a)) = a

\* C5: a successful send_message without session_id has created a session
\* under a fresh id whose message_count is 1 and whose agents_used is exactly
\* the selected agent; a successful send_message with a known id has reused the
\* session (its earlier history is kept and its count has grown); and a session
\* all of whose n calls have ended, each successfully, has message_count n.
C5_SessionLifecycle ==
    /\ \A p \in Procs :
          (turns[p].pc = "done" /\ turns[p].status = "ok") =>
             LET session == heap[turns[p].session] IN
             /\ turns[p].fresh =>
                   /\ ~turns[p].before.exists
                   /\ turns[p].session_id \in DOMAIN sessions
                   /\ sessions[turns[p].session_id] = turns[p].session
                   /\ session.message_count = 1
                   /\ session.agents_used = <<turns[p].selected_agent>>
             /\ turns[p].before.exists =>
                   /\ session.message_count > turns[p].before.message_count
                   /\ IsPrefix(turns[p].before.memory, session.memory)
    /\ \A o \in DOMAIN heap :
          (/\ heap[o] # Freed
           /\ heap[o].err_turns = 0
           /\ ~ \E p \in Procs : InFlight(p) /\ turns[p].session = o)
          => heap[o].message_count = heap[o].ok_turns

\* the second successful call on a session that uuid4 named
C5_Witness_SecondTurn ==
    \E p \in Procs :
        /\ turns[p].pc = "done" /\ turns[p].status = "ok"
        /\ turns[p].session_id.kind = "uuid4" /\ ~turns[p].fresh
        /\ heap[turns[p].session].message_count = 2
        /\ heap[turns[p].session].ok_turns = 2

\* C6: when obtaining the agent or process_query fails, the session map and
\* the session's state are as they were before the call: no session created,
\* message_count not incremented, agents_used and history unchanged.
C6_FailedTurnLeavesNoTrace ==
    \A p \in Procs :
        (turns[p].pc = "done" /\ turns[p].status = "error") =>
            SnapshotOf(turns[p].session_id) = turns[p].before

\* one step of the model seen from the history of the session of call p
C7_HistoryStep(p) ==
    LET o == turns'[p].session
        before == IF o \in DOMAIN heap THEN heap[o].memory ELSE << >>
    IN  /\ (turns[p].pc = "idle" /\ turns'[p].pc # "idle") =>
              heap'[o].memory = before
        /\ (turns[p].pc = "await_agent" /\ turns'[p].agent_outcome = "answered") =>
              heap'[o].memory =
                  before \o << [type |-> "human", content |-> turns[p].message],
                               [type |-> "ai", content |-> turns'[p].response] >>
        /\ (turns[p].pc = "await_agent" /\ turns'[p].agent_outcome = "raised") =>
              heap'[o].memory = before
        /\ (InFlight(p) /\ turns'[p].pc = "await_agent"
                /\ turns[p].pc # "await_agent") =>
              heap'[o].memory = before

\* C7: a successful process_query appends exactly two entries to the session's
\* history, the original user query and then the produced answer, and only in
\* the step in which the reasoning step returns; when the reasoning step
\* raises, the history is left as it was.
C7_HistoryAppend == [][\A p \in Procs : C7_HistoryStep(p)]_vars

\* a turn answered from retrieved context, so that the input of the reasoning
\* step differs from the query
C7_Witness_ContextTurn ==
    \E p \in Procs :
        /\ turns[p].pc = "done" /\ turns[p].status = "ok"
        /\ turns[p].input # turns[p].message
        /\ LET memory == heap[turns[p].session].memory IN
           /\ Len(memory) = 2
           /\ memory[1] = [type |-> "human", content |-> turns[p].message]
           /\ memory[2] = [type |-> "ai", content |-> turns[p].response]

\* C8: an agent_override that is not one of the six identities is ignored: the
\* agent is resolved by route_query and the turn is dispatched to it instead
\* of failing on the unknown name.
C8_UnknownOverrideIgnored ==
    \A p \in Procs :
        (/\ turns[p].pc # "idle"
         /\ turns[p].agent_override # ""
         /\ turns[p].agent_override \notin factory_agents)
        => /\ turns[p].routed
           /\ turns[p].selected_agent # turns[p].agent_override
           /\ ~(turns[p].pc = "done" /\ turns[p].agent = "")

\* C9: with an agent_override that names one of the six identities, route_query
\* is never called, the turn is dispatched to the override agent, and the
\* response reports agent_used = override, whatever the query.
C9_KnownOverrideBypassesRouter ==
    \A p \in Procs :
        (turns[p].pc # "idle" /\ turns[p].agent_override \in factory_agents) =>
            /\ ~turns[p].routed
            /\ turns[p].pc # "await_classifier"
            /\ turns[p].selected_agent = turns[p].agent_override
            /\ turns[p].agent = turns[p].agent_override
            /\ (turns[p].pc = "done" /\ turns[p].status = "ok") =>
                  turns[p].agent_used = turns[p].agent_override

\* the override medical on a query that hits the real_estate keywords
C9_Witness_OverrideBeatsKeywords ==
    \E p \in Procs :
        /\ turns[p].pc = "done" /\ turns[p].status = "ok"
        /\ turns[p].agent_override = "medical"
        /\ route_keywords(turns[p].message) = "real_estate"
        /\ turns[p].agent_used = "medical"

\* C10: when the reasoning step raises, send_message ends with HTTP 500 and no
\* ChatResponse; a turn ends in a success response only with the answer the
\* agent produced for it.
C10_FailureIsReported ==
    \A p \in Procs :
        turns[p].pc = "done" =>
            /\ turns[p].status \in {"ok", "error"}
            /\ turns[p].agent_outcome = "raised" =>
                  /\ turns[p].status = "error"
                  /\ turns[p].response = "" /\ turns[p].agent_used = ""
            /\ turns[p].status = "ok" =>
                  /\ turns[p].agent_outcome = "answered"
                  /\ turns[p].response = AnswerTo(turns[p].input)

C10_Witness_AgentRaised ==
    \E p \in Procs :
        /\ turns[p].pc = "done" /\ turns[p].agent_outcome = "raised"
        /\ turns[p].status = "error"

-----------------------------------------------------------------------------
(* VectorStoreService: the operations on the document index.  Uploads,     *)
(* retrieval, clear and delete go through the router's instance; an agent  *)
(* searches the instance it built for itself.                              *)

\* vector_store.py line 116: threshold: float = 0.7, in tenths
default_threshold == 7

\* self.vector_stores.get(agent): a name outside the dict has no store
StoreOf(service, agent) ==
    IF agent \in StoreAgents THEN vector_stores[service][agent] ELSE NoStore

\* the backend's ranking: the chunks of the index, nearest (lowest score) first
RECURSIVE nearest_first(_, _)
nearest_first(docs, query) ==
    IF docs = << >> THEN << >>
    ELSE LET d == docs[Len(docs)]
             rest == nearest_first(SubSeq(docs, 1, Len(docs) - 1), query)
             NotFarther(e) ==
                 Distance(query, e.page_content) <= Distance(query, d.page_content)
             Farther(e) ==
                 Distance(query, e.page_content) > Distance(query, d.page_content)
         IN  SelectSeq(rest, NotFarther) \o << d >> \o SelectSeq(rest, Farther)

\* mutant of similarity_search_with_score: k is not passed on
similarity_search_with_score_all(docs, query, k) ==
    [i \in 1..Len(docs) |->
        [doc |-> nearest_first(docs, query)[i],
         score |-> Distance(query, nearest_first(docs, query)[i].page_content)]]

\* vector_store.py line 138: the k nearest chunks with their scores
similarity_search_with_score(docs, query, k) ==
    [i \in 1..Smaller(k, Len(docs)) |->
        [doc |-> nearest_first(docs, query)[i],
         score |-> Distance(query, nearest_first(docs, query)[i].page_content)]]

\* vector_store.py lines 141-144: keep the results with score >= threshold
filter_by_threshold(results, threshold) ==
    LET Passes(r) == r.score >= threshold
    IN  SelectSeq(results, Passes)

\* mutant of search: an agent without a store is given an empty one
search_creating(store, query, k, threshold, backend) ==
    [results |->
        IF store.kind = "absent" THEN << >>
        ELSE IF store.kind = "none" \/ backend = "fails" THEN << >>
        ELSE filter_by_threshold(
                 similarity_search_with_score(store.docs, query, k), threshold),
     store |-> IF store.kind = "absent" THEN Faiss(<< >>) ELSE store]

\* vector_store.py lines 130-151: [] without a store; [] when anything
\* raises (a failing backend, or a store that is None); else the filtered
\* results.  The store is only read.
search(store, query, k, threshold, backend) ==
    [results |->
        IF store.kind = "absent" THEN << >>
        ELSE IF store.kind = "none" \/ backend = "fails" THEN << >>
        ELSE filter_by_threshold(
                 similarity_search_with_score(store.docs, query, k), threshold),
     store |-> store]

\* mutant of faiss_add_documents: the chunks embedded before the failure stay
faiss_add_documents_partial(docs, documents, embedding) ==
    IF embedding = "fails"
    THEN [raised |-> TRUE, docs |-> docs \o << documents[1] >>]
    ELSE [raised |-> FALSE, docs |-> docs \o documents]

\* vector_store.py lines 63-66 and 97: from_documents and add_documents of
\* FAISS embed all the texts first and only then touch the index
faiss_add_documents(docs, documents, embedding) ==
    IF embedding = "fails"
    THEN [raised |-> TRUE, docs |-> docs]
    ELSE [raised |-> FALSE, docs |-> docs \o documents]

\* vector_store.py lines 213-223: save_local writes the index; an exception
\* is logged and dropped, leaving the old file or a half-written one
save_store(file, store, saving) ==
    CASE saving = "saved" -> SavedFile(store.docs)
      [] saving = "fails" -> file
      [] saving = "torn" -> CorruptFile

SaveOutcomes == {"saved", "fails", "torn"}

\* vector_store.py lines 46-77
create_vector_store(file, documents, embedding, saving) ==
    LET added == faiss_add_documents(<< >>, documents, embedding)
    IN  IF added.raised
        THEN [raised |-> TRUE, store |-> NoStore, file |-> file]
        ELSE [raised |-> FALSE, store |-> Faiss(added.docs),
              file |-> save_store(file, Faiss(added.docs), saving)]

\* vector_store.py lines 79-109
add_documents(store, file, documents, embedding, saving_created, saving) ==
    IF documents = << >>
    THEN [raised |-> FALSE, count |-> 0, store |-> store, file |-> file]
    ELSE IF store.kind = "none"
    THEN \* None.add_documents: AttributeError, logged and raised again
         [raised |-> TRUE, count |-> 0, store |-> store, file |-> file]
    ELSE IF store.kind = "faiss"
    THEN LET added == faiss_add_documents(store.docs, documents, embedding)
         IN  IF added.raised
             THEN \* the store object is left as FAISS left it
                  [raised |-> TRUE, count |-> 0, store |-> Faiss(added.docs),
                   file |-> file]
             ELSE [raised |-> FALSE, count |-> Len(documents),
                   store |-> Faiss(added.docs),
                   file |-> save_store(file, Faiss(added.docs), saving)]
    ELSE LET created == create_vector_store(file, documents, embedding,
                                            saving_created)
         IN  IF created.raised
             THEN [raised |-> TRUE, count |-> 0, store |-> store, file |-> file]
             ELSE [raised |-> FALSE, count |-> Len(documents),
                   store |-> created.store,
                   file |-> save_store(created.file, created.store, saving)]

\* vector_store.py lines 239-242: the rebuild is a stub
rebuild_store_without_file(store, filename) == store

\* vector_store.py lines 170-186
remove_document(store, filename) ==
    IF store.kind = "absent" THEN store
    ELSE rebuild_store_without_file(store, filename)

\* mutant of clear_store_file: the persisted index is left in place
clear_store_file_kept(file) == file

\* vector_store.py lines 199-206: unlink <agent>.pkl and <agent>.faiss
clear_store_file(file) == NoFile

\* vector_store.py lines 225-237: None for a file that cannot be loaded
load_store(file) ==
    IF file.kind = "saved" THEN Faiss(file.docs) ELSE NoneStore

\* vector_store.py lines 36-44: one entry per *.pkl file found
load_existing_stores(files) ==
    [a \in DOMAIN files |->
        IF files[a].kind = "absent" THEN NoStore ELSE load_store(files[a])]

FilenamesOf(documents) == {documents[i].filename : i \in 1..Len(documents)}

PageContents(results) == [i \in 1..Len(results) |-> results[i].doc.page_content]

chat_only_vars == <<rq, sessions, heap, turns, agent_stores, disk, issued,
                    uuids, started>>

\* rag.py lines 150-155: POST /retrieve
Search(agent, query, k, threshold, backend) ==
    /\ ops < MaxOps
    /\ backend = "fails" => StoreOf(RouterService, agent).kind = "faiss"
    /\ LET found == search(StoreOf(RouterService, agent), query, k, threshold,
                           backend)
       IN  /\ last' = [NoOp EXCEPT !.op = "search", !.service = RouterService,
                          !.agent = agent, !.query = query, !.k = k,
                          !.threshold = threshold,
                          !.failure = IF backend = "fails" THEN "search" ELSE "",
                          !.before = StoreOf(RouterService, agent),
                          !.results = found.results]
           /\ vector_stores' =
                 IF agent \in StoreAgents
                 THEN [vector_stores EXCEPT ![RouterService][agent] = found.store]
                 ELSE vector_stores
    /\ ops' = ops + 1
    /\ UNCHANGED <<store_files, cleared, removed, agent_cache, dataset, chat_only_vars>>

\* rag.py line 105: the upload's add_documents
AddDocuments(agent, documents, embedding, saving_created, saving) ==
    /\ ops < MaxOps
    /\ LET store == vector_stores[RouterService][agent]
           done == add_documents(store, store_files[agent], documents, embedding,
                                 saving_created, saving)
       IN  \* outcomes of steps the call does not reach are not drawn
           /\ embedding = "fails" => documents # << >> /\ store.kind # "none"
           /\ saving_created # "saved" =>
                 documents # << >> /\ store.kind = "absent" /\ embedding = "ok"
           /\ saving # "saved" =>
                 documents # << >> /\ store.kind # "none" /\ embedding = "ok"
           /\ vector_stores' = [vector_stores EXCEPT
                                   ![RouterService][agent] = done.store]
           /\ store_files' = [store_files EXCEPT ![agent] = done.file]
           /\ last' = [NoOp EXCEPT !.op = "add_documents",
                          !.service = RouterService, !.agent = agent,
                          !.documents = documents,
                          !.failure = IF embedding = "fails" THEN "embedding"
                                      ELSE IF saving # "saved" THEN "saving"
                                      ELSE "",
                          !.raised = done.raised, !.count = done.count,
                          !.before = store, !.before_file = store_files[agent]]
           /\ cleared' = cleared \ {agent}
           /\ removed' = IF done.raised THEN removed
                         ELSE removed \ {<<agent, f>> : f \in FilenamesOf(documents)}
    /\ ops' = ops + 1
    /\ UNCHANGED <<agent_cache, dataset, chat_only_vars>>

\* rag.py line 283 and vector_store.py lines 188-211
ClearStore(agent) ==
    /\ ops < MaxOps
    /\ vector_stores' = [vector_stores EXCEPT ![RouterService][agent] = NoStore]
    /\ store_files' = [store_files EXCEPT ![agent] = clear_store_file(@)]
    /\ last' = [NoOp EXCEPT !.op = "clear_store", !.service = RouterService,
                   !.agent = agent,
                   !.before = vector_stores[RouterService][agent],
                   !.before_file = store_files[agent]]
    /\ cleared' = cleared \cup {agent}
    /\ removed' = removed
    /\ ops' = ops + 1
    /\ UNCHANGED <<agent_cache, dataset, chat_only_vars>>

\* rag.py line 247: DELETE /agents/{agent}/documents/{filename}
RemoveDocument(agent, filename) ==
    /\ ops < MaxOps
    /\ vector_stores' = [vector_stores EXCEPT ![RouterService][agent] =
                            remove_document(@, filename)]
    /\ last' = [NoOp EXCEPT !.op = "remove_document", !.service = RouterService,
                   !.agent = agent, !.filename = filename,
                   !.before = vector_stores[RouterService][agent]]
    /\ removed' = removed \cup {<<agent, filename>>}
    /\ ops' = ops + 1
    /\ UNCHANGED <<store_files, cleared, agent_cache, dataset, chat_only_vars>>

\* specialized_agents.py lines 36-37 and 374-379: the factory builds an agent
\* on its first use; the agent's constructor makes a VectorStoreService that
\* loads what is persisted at that moment
BuildAgent(agent_name) ==
    /\ ops < MaxOps
    /\ agent_name \notin agent_cache
    /\ agent_cache' = agent_cache \cup {agent_name}
    /\ vector_stores' = [vector_stores EXCEPT
                            ![agent_name] = load_existing_stores(store_files)]
    /\ last' = [NoOp EXCEPT !.op = "construct", !.service = agent_name,
                   !.agent = agent_name]
    /\ ops' = ops + 1
    /\ UNCHANGED <<store_files, cleared, removed, dataset, chat_only_vars>>

\* mutant of process_query_outcome: a failed retrieval fails the turn
process_query_outcome_strict(failure, reasoning) ==
    IF failure # "" \/ reasoning = "raises" THEN "error" ELSE "ok"

\* specialized_agents.py lines 97-149: search has caught its own failure, so
\* only the reasoning step can make process_query raise
process_query_outcome(failure, reasoning) ==
    IF reasoning = "raises" THEN "error" ELSE "ok"

\* specialized_agents.py lines 97-149: process_query of a built agent, with
\* include_sources true
ProcessQuery(agent_name, query, backend, reasoning) ==
    /\ ops < MaxOps
    /\ agent_name \in agent_cache
    /\ backend = "fails" => vector_stores[agent_name][agent_name].kind = "faiss"
    /\ LET found == search(vector_stores[agent_name][agent_name], query,
                           search_k, default_threshold, backend)
           failure == IF backend = "fails" THEN "search" ELSE ""
       IN  last' = [NoOp EXCEPT !.op = "process_query", !.service = agent_name,
                       !.agent = agent_name, !.query = query, !.k = search_k,
                       !.threshold = default_threshold, !.failure = failure,
                       !.before = vector_stores[agent_name][agent_name],
                       !.results = found.results,
                       !.input = enhanced_query_of(query,
                                     context_of(PageContents(found.results))),
                       !.status = process_query_outcome(failure, reasoning)]
    /\ ops' = ops + 1
    /\ UNCHANGED <<vector_stores, store_files, cleared, removed, agent_cache,
                   dataset, chat_only_vars>>

StoreInit ==
    /\ rq = RouteIdle
    /\ ChatInit

StoreNext ==
    \/ \E agent \in SearchAgents, query \in StoreQueries, k \in Ks,
          threshold \in Thresholds, backend \in {"ok", "fails"} :
          Search(agent, query, k, threshold, backend)
    \/ \E agent \in StoreAgents, documents \in DocumentLists,
          embedding \in {"ok", "fails"}, saving_created \in SaveOutcomes,
          saving \in SaveOutcomes :
          AddDocuments(agent, documents, embedding, saving_created, saving)
    \/ \E agent \in StoreAgents : ClearStore(agent)
    \/ \E agent \in StoreAgents, filename \in Filenames :
          RemoveDocument(agent, filename)
    \/ \E agent_name \in StoreAgents : BuildAgent(agent_name)
    \/ \E agent_name \in StoreAgents, query \in StoreQueries,
          backend \in {"ok", "fails"}, reasoning \in {"returns", "raises"} :
          ProcessQuery(agent_name, query, backend, reasoning)

StoreSpec == StoreInit /\ [][StoreNext]_vars

-----------------------------------------------------------------------------
(* Claims about the document index, checked under StoreSpec *)

\* the step just taken was a vector-store operation of this kind
Did(op) == ops' = ops + 1 /\ last'.op = op

\* C11: when the search backend fails during the retrieval step of
\* process_query, the turn ends in an error that reaches the caller; it does
\* not end as a successful answer made without retrieved context
C11_RetrievalFailureSurfaces ==
    (last.op = "process_query" /\ last.failure = "search")
        => last.status = "error"

\* C12: search returns at most k results, each with score >= threshold
C12_AtMostKAboveThreshold ==
    last.op \in {"search", "process_query"} =>
        /\ Len(last.results) <= last.k
        /\ \A i \in 1..Len(last.results) : last.results[i].score >= last.threshold

\* a search that k cut short and the threshold filtered, with results left
C12_Witness_CutAndFiltered ==
    /\ last.op = "search"
    /\ last.before.kind = "faiss"
    /\ Len(last.before.docs) > last.k
    /\ last.results # << >>
    /\ \E i \in 1..Len(last.before.docs) :
          Distance(last.query, last.before.docs[i].page_content) < last.threshold

\* C13: the results are ordered highest relevance first: scores never
\* increase along the sequence, and the returned chunks are the most
\* relevant of the index (no chunk left out is closer than a returned one)
C13_HighestRelevanceFirst ==
    last.op = "search" =>
        /\ \A i, j \in 1..Len(last.results) :
              i < j => last.results[i].score >= last.results[j].score
        /\ \A i \in 1..Len(last.before.docs), j \in 1..Len(last.results) :
              Distance(last.query, last.before.docs[i].page_content)
                  < last.results[j].score
              => \E h \in 1..Len(last.results) :
                    last.results[h].doc = last.before.docs[i]

\* C14: search on an agent without an index returns the empty sequence,
\* raises nothing, and leaves the indexes as they were
C14_SearchWithoutIndex ==
    [][(Did("search") /\ last'.before.kind = "absent")
          => /\ last'.results = << >>
             /\ ~last'.raised
             /\ vector_stores' = vector_stores
             /\ store_files' = store_files]_vars

\* an unknown agent was searched while another agent had an index
C14_Witness_UnknownAgent ==
    /\ last.op = "search"
    /\ last.agent = "nobody"
    /\ last.results = << >>
    /\ \E a \in StoreAgents : vector_stores[RouterService][a].kind = "faiss"

\* the index a VectorStoreService constructed now would load for the agent
LoadedNow(agent) == load_existing_stores(store_files)[agent]

C16_FailedAddLeavesIndexIntact ==
    (last.op = "add_documents" /\ last.failure = "embedding") =>
        /\ last.raised
        /\ vector_stores[RouterService][last.agent] = last.before
        /\ store_files[last.agent] = last.before_file

\* the embedding failed while chunks were added to an existing index
C16_Witness_FailedOnExistingIndex ==
    /\ last.op = "add_documents"
    /\ last.failure = "embedding"
    /\ last.before.kind = "faiss"
    /\ last.before_file.kind = "saved"

\* C17: after every add_documents call that returns normally, the persisted
\* index of the agent holds the same chunks as the in-memory index, so a
\* service constructed afterwards loads exactly those chunks
C17_PersistedAfterAdd ==
    (last.op = "add_documents" /\ ~last.raised) =>
        LoadedNow(last.agent) = vector_stores[RouterService][last.agent]

\* C18: one index per agent is shared by every component: the index an
\* agent's process_query searches is the one uploads and clears act on (here
\* with every save having gone through, so that the persisted index is the
\* router's)
C18_OneIndexPerAgent ==
    (/\ last.op = "process_query"
     /\ LoadedNow(last.agent) = vector_stores[RouterService][last.agent]) =>
        last.before = vector_stores[RouterService][last.agent]

\* C19: after remove_document(agent, filename) has returned, no search on
\* that agent returns a chunk of that file
C19_RemovedFileNotReturned ==
    last.op = "search" =>
        \A i \in 1..Len(last.results) :
            <<last.agent, last.results[i].doc.filename>> \notin removed

IsSuffix(a, b) ==
    Len(a) <= Len(b) /\ SubSeq(b, Len(b) - Len(a) + 1, Len(b)) = a

ResultTexts(store, query, k, threshold) ==
    Range(PageContents(search(store, query, k, threshold, "ok").results))

\* C20: adding a document's chunks a second time leaves the index holding
\* the chunks of both adds, returns the same count, and for every query, k
\* and threshold the chunk texts search returns after the second add
\* include those it returned after the first
C20_SecondAddKeepsResults ==
    (/\ last.op = "add_documents" /\ ~last.raised
     /\ last.documents # << >>
     /\ last.before.kind = "faiss"
     /\ IsSuffix(last.documents, last.before.docs)) =>
        LET after == vector_stores[RouterService][last.agent]
        IN  /\ after.docs = last.before.docs \o last.documents
            /\ last.count = Len(last.documents)
            /\ \A query \in StoreQueries, k \in Ks, threshold \in Thresholds :
                  ResultTexts(last.before, query, k, threshold)
                      \subseteq ResultTexts(after, query, k, threshold)

-----------------------------------------------------------------------------
(* Claims about concurrent and successive chat turns, checked under Spec   *)
(* and, for a client that awaits each response, under SeqSpec              *)

\* the step was taken by the send_message call in slot p
StepOf(p) == turns'[p] # turns[p]

\* C22: whatever the interleaving of turns, the factory constructs at most one
\* instance per agent identity and every get_agent call for it gets that
\* instance; get_agent with a name outside the six identities raises and
\* adds nothing to the cache
C22_OneInstancePerAgent ==
    [][/\ agent_cache \subseteq agent_cache'
       /\ agent_cache' \subseteq factory_agents
       /\ \A a \in agent_cache : agent_stores'[a] = agent_stores[a]
       /\ \A p \in Procs :
             /\ (StepOf(p) /\ turns'[p].pc = "await_agent")
                   => /\ turns'[p].agent = turns'[p].selected_agent
                      /\ turns'[p].agent \in agent_cache'
             /\ (/\ StepOf(p) /\ turns'[p].pc = "done"
                 /\ turns[p].pc \in {"idle", "await_classifier"}
                 /\ turns'[p].selected_agent \notin factory_agents)
                   => /\ turns'[p].status = "error"
                      /\ agent_cache' = agent_cache]_vars

\* two turns in flight hold the same agent, built before a document was added
C22_Witness_TwoTurnsOneAgent ==
    /\ turns[1].pc = "await_agent" /\ turns[2].pc = "await_agent"
    /\ turns[1].agent = "medical" /\ turns[2].agent = "medical"
    /\ agent_stores["medical"] = {}
    /\ disk["medical"] # {}

\* C23: a turn for one session never changes another session's history,
\* turn count or agents_used, whatever the interleaving
C23_SessionsAreIsolated ==
    [][\A o \in DOMAIN heap :
          (/\ heap'[o] # Freed
           /\ \/ heap'[o].memory # heap[o].memory
              \/ heap'[o].message_count # heap[o].message_count
              \/ heap'[o].agents_used # heap[o].agents_used)
          => \E p \in Procs :
                /\ StepOf(p)
                /\ turns'[p].session = o
                /\ \A q \in Procs \ {p} : turns'[q] = turns[q]]_vars

\* a turn of one session was answered while a turn of another was in flight
C23_Witness_TwoSessions ==
    /\ turns[1].pc = "done" /\ turns[1].status = "ok"
    /\ turns[2].pc = "await_agent"
    /\ turns[1].session # turns[2].session
    /\ Len(heap[turns[1].session].memory) = 2
    /\ heap[turns[2].session].memory = << >>
    /\ heap[turns[2].session].message_count = 1

\* a client that sends a message only when no call of its own is in flight
SeqSendMessage ==
    /\ \A q \in Procs : turns[q].pc = "idle"
    /\ \E p \in Procs, message \in ChatQueries,
          request_session_id \in KnownIds \cup {NoSessionId},
          agent_override \in Overrides, include_sources \in IncludeSources :
          SendMessage(p, message, request_session_id, agent_override,
                      include_sources)

SeqNext ==
    \/ SeqSendMessage
    \/ \E p \in Procs, response_text \in SampleReplies :
          ClassifierReplies(p, response_text)
    \/ \E p \in Procs : ClassifierRaises(p)
    \/ \E p \in Procs : AgentReturns(p)
    \/ \E p \in Procs : AgentRaises(p)
    \/ \E p \in Procs : Finish(p)
    \/ \E session_id \in KnownIds : ClearSession(session_id)
    \/ \E agent \in UploadAgents, chunk \in Chunks : UploadDocument(agent, chunk)

SeqSpec == Init /\ [][SeqNext]_vars

\* C24: when each turn of a session is sent after the previous response, the
\* history after n successful turns is query_1, answer_1, ..., query_n,
\* answer_n in the order sent: the reasoning step of a turn gets exactly the
\* entries of the earlier successful turns, and a successful turn adds its
\* own pair behind them
C24_HistoryInSubmissionOrder ==
    \A p \in Procs :
        LET o == turns[p].session
        IN  /\ turns[p].pc = "await_agent" =>
                  /\ heap[o].memory = turns[p].before.memory
                  /\ Len(heap[o].memory) = 2 * heap[o].ok_turns
            /\ (turns[p].pc = "done" /\ turns[p].status = "ok") =>
                  /\ heap[o].memory =
                        turns[p].before.memory \o
                            << [type |-> "human", content |-> turns[p].message],
                               [type |-> "ai", content |-> turns[p].response] >>
                  /\ Len(heap[o].memory) = 2 * heap[o].ok_turns

\* the second successful turn of a session has been answered
C24_Witness_SecondAnswer ==
    \E p \in Procs :
        /\ turns[p].pc = "done" /\ turns[p].status = "ok"
        /\ Len(turns[p].before.memory) = 2
        /\ Len(heap[turns[p].session].memory) = 4

\* C26: clear_session on an existing session removes it, so list_sessions no
\* longer reports it and a later send_message with the same id starts a
\* fresh session (count 1, empty history, agents_used holding at most the
\* newly selected agent); clear_session on an unknown id reports not_found
\* and leaves the session map unchanged
C26_ClearSessionStartsAfresh ==
    [][/\ \A session_id \in KnownIds :
             LET cleared_map == clear_session(session_id, sessions)
             IN  IF session_id \in list_sessions
                 THEN /\ cleared_map.status = "success"
                      /\ DOMAIN cleared_map.sessions = list_sessions \ {session_id}
                      /\ \A x \in DOMAIN cleared_map.sessions :
                            cleared_map.sessions[x] = sessions[x]
                 ELSE /\ cleared_map.status = "not_found"
                      /\ cleared_map.sessions = sessions
       /\ \A p \in Procs :
             (/\ turns[p].pc = "idle" /\ turns'[p].pc # "idle"
              /\ turns'[p].session_id \notin list_sessions)
             => LET o == heap'[turns'[p].session]
                IN  /\ ~turns'[p].before.exists
                    /\ turns'[p].session_id \in DOMAIN sessions'
                    /\ o.message_count = 1
                    /\ o.memory = << >>
                    /\ o.agents_used \in {<< >>, << turns'[p].selected_agent >>}
                    /\ turns'[p].pc = "await_agent" =>
                          o.agents_used = << turns'[p].selected_agent >>]_vars

\* a session a response had named was cleared and its id used again
C26_Witness_IdUsedAgain ==
    \E p \in Procs :
        /\ turns[p].pc = "await_agent"
        /\ turns[p].session_id \in issued
        /\ ~turns[p].before.exists
        /\ heap[turns[p].session].message_count = 1

\* C29: whatever the interleaving of send_message and clear_session, a
\* successful response names a session that is in the session map when the
\* response is returned, and the turn is recorded in that session's history
C29_ResponseNamesLiveSession ==
    [][\A p \in Procs :
          (/\ turns[p].pc = "await_agent"
           /\ turns'[p].pc = "done" /\ turns'[p].status = "ok")
          => /\ turns'[p].session_id \in DOMAIN sessions'
             /\ sessions'[turns'[p].session_id] = turns'[p].session]_vars

\* the calls in flight on a session object
InFlightOn(o) == {p \in Procs : InFlight(p) /\ turns[p].session = o}

\* C30: whatever the interleaving of turns on one session, its history is
\* made of adjacent (query, answer) pairs: the length is even, each user
\* entry is followed by the answer to that query, no successful turn's
\* pair is missing, and the count is the number of calls started on it
C30_HistoryIsPairs ==
    \A o \in DOMAIN heap :
        heap[o] # Freed =>
            /\ Len(heap[o].memory) = 2 * heap[o].ok_turns
            /\ \A i \in 1..heap[o].ok_turns :
                  /\ heap[o].memory[2 * i - 1].type = "human"
                  /\ heap[o].memory[2 * i].type = "ai"
                  /\ IsPrefix(AnswerTo(heap[o].memory[2 * i - 1].content),
                              heap[o].memory[2 * i].content)
            /\ heap[o].message_count =
                  heap[o].ok_turns + heap[o].err_turns
                      + Cardinality(InFlightOn(o))

\* two turns that ran together on one session have both been answered
C30_Witness_TwoTogether ==
    /\ turns[1].pc = "done" /\ turns[1].status = "ok"
    /\ turns[2].pc = "done" /\ turns[2].status = "ok"
    /\ turns[1].session = turns[2].session
    /\ heap[turns[1].session].message_count = 2
    /\ Len(heap[turns[1].session].memory) = 4

-----------------------------------------------------------------------------
(* A claim about the keyword fast path, checked under RouteSpec *)

Letters ==
    {"a", "b", "c", "d", "e", "f", "g", "h", "i", "j", "k", "l", "m", "n", "o",
     "p", "q", "r", "s", "t", "u", "v", "w", "x", "y", "z"}

\* the keyword stands in the text as a word or phrase of its own: no letter
\* right before it and none right after it
OccursAsWord(keyword, text) ==
    \E i \in 1..(Len(text) - Len(keyword) + 1) :
        /\ SubSeq(text, i, i + Len(keyword) - 1) = keyword
        /\ i = 1 \/ SubSeq(text, i - 1, i - 1) \notin Letters
        /\ \/ i + Len(keyword) - 1 = Len(text)
           \/ SubSeq(text, i + Len(keyword), i + Len(keyword)) \notin Letters

AnyKeywordAsWord(keywords, query) ==
    \E keyword \in keywords : OccursAsWord(keyword, str_lower(query))

\* the queries with an ai_ml keyword as a word and no general or medical one
AiMlByWords ==
    {query \in Queries :
        /\ AnyKeywordAsWord(ai_keywords, query)
        /\ ~AnyKeywordAsWord(general_keywords, query)
        /\ ~AnyKeywordAsWord(medical_keywords, query)}

\* C27: a fast-path hit is a keyword that occurs in the query as a word or
\* phrase: a query with an ai_ml keyword in it, and no general or medical
\* keyword occurring as a word, is routed to ai_ml; a general keyword that
\* only occurs inside a longer word is not a hit
C27_KeywordsHitAsWords ==
    (rq.pc = "returned" /\ rq.query \in AiMlByWords) => rq.result = "ai_ml"

-----------------------------------------------------------------------------
(* The ingestion handlers of the rag router and the start of the process.  *)
(* No handler below awaits between its reads and writes of the index, so   *)
(* each runs as one step.                                                  *)

\* rag.py line 78
allowed_extensions == {".pdf", ".txt", ".docx", ".md", ".csv"}

\* Path(filename).suffix: from the last dot on
suffix_of(filename) ==
    LET dots == {i \in 2..Len(filename) : SubSeq(filename, i, i) = "."}
    IN  IF dots = {} THEN ""
        ELSE SubSeq(filename, SetMax(dots), Len(filename))

\* rag.py lines 70-85: the agent and the file type are both accepted
upload_is_valid(agent, filename) ==
    /\ agent \in RagAgents
    /\ suffix_of(str_lower(filename)) \in allowed_extensions

\* rag.py lines 129-131: `except Exception` also catches the HTTPException
\* raised inside the try block and answers with a new HTTPException(500)
handler_error_status(raised_status) == "500"

\* the names and files uploads are tried with
UploadNames == StoreAgents \cup {"general"}
UploadFilenames == Filenames \cup {"x.exe"}

\* upload_is_valid of every upload tried, worked out once
UploadValidity ==
    [agent \in UploadNames, filename \in UploadFilenames |->
        upload_is_valid(agent, filename)]

\* the orders iterdir() can list a directory in
Orders(files) ==
    {order \in [1..Cardinality(files) -> files] :
        \A i, j \in 1..Cardinality(files) : i # j => order[i] # order[j]}

RECURSIVE ChunksOfFiles(_)
ChunksOfFiles(order) ==
    IF order = << >> THEN << >>
    ELSE ChunksOfFile(Head(order)) \o ChunksOfFiles(Tail(order))

\* rag.py lines 50-131: POST /upload
upload_document(agent, filename, loading, embedding, saving_created, saving) ==
    /\ ops < MaxOps
    /\ LET valid == UploadValidity[agent, filename]
           store == StoreOf(RouterService, agent)
           file == IF agent \in StoreAgents THEN store_files[agent] ELSE NoFile
           documents == IF valid /\ loading = "ok" THEN ChunksOfFile(filename)
                        ELSE << >>
           done == add_documents(store, file, documents, embedding,
                                 saving_created, saving)
           added == valid /\ loading = "ok"
       IN  \* outcomes of steps the call does not reach are not drawn
           /\ loading = "fails" => valid
           /\ embedding = "fails" => added /\ store.kind # "none"
           /\ saving_created # "saved" =>
                 added /\ store.kind = "absent" /\ embedding = "ok"
           /\ saving # "saved" => added /\ store.kind # "none" /\ embedding = "ok"
           /\ dataset' = IF valid
                         THEN [dataset EXCEPT ![agent] =
                                  Directory(@.files \cup {filename})]
                         ELSE dataset
           /\ vector_stores' =
                 IF added
                 THEN [vector_stores EXCEPT ![RouterService][agent] = done.store]
                 ELSE vector_stores
           /\ store_files' = IF added
                             THEN [store_files EXCEPT ![agent] = done.file]
                             ELSE store_files
           /\ last' = [NoOp EXCEPT
                  !.op = "upload_document", !.service = RouterService,
                  !.agent = agent, !.filename = filename,
                  !.documents = documents,
                  !.failure = IF ~valid THEN "validation"
                              ELSE IF loading = "fails" THEN "loading"
                              ELSE IF embedding = "fails" THEN "embedding"
                              ELSE IF saving # "saved" THEN "saving"
                              ELSE "",
                  !.raised = added /\ done.raised,
                  !.count = done.count,
                  !.before = store, !.before_file = file,
                  !.status = IF ~valid THEN handler_error_status("400")
                             ELSE IF loading = "fails" \/ done.raised
                             THEN handler_error_status("error")
                             ELSE "success"]
           /\ cleared' = IF added THEN cleared \ {agent} ELSE cleared
           /\ removed' = IF added /\ ~done.raised
                         THEN removed \ {<<agent, filename>>} ELSE removed
    /\ ops' = ops + 1
    /\ UNCHANGED <<agent_cache, chat_only_vars>>

\* rag.py lines 287-294: add the files one after the other; the first file
\* that fails to load ends the loop with its exception
RECURSIVE add_files(_, _, _, _, _, _)
add_files(store, file, order, i, fails_at, saving) ==
    IF i > Len(order) THEN [raised |-> FALSE, store |-> store, file |-> file]
    ELSE IF i = fails_at THEN [raised |-> TRUE, store |-> store, file |-> file]
    ELSE LET done == add_documents(store, file, ChunksOfFile(order[i]), "ok",
                                   saving, saving)
         IN  add_files(done.store, done.file, order, i + 1, fails_at, saving)

\* rag.py lines 263-310: POST /reindex/{agent}
reindex_agent_documents(agent, order, fails_at, saving) ==
    /\ ops < MaxOps
    /\ IF agent \in StoreAgents /\ dataset[agent].exists
       THEN /\ order \in Orders(dataset[agent].files)
            /\ fails_at \in 0..Len(order)
            /\ saving # "saved" => Len(order) > 0 /\ fails_at # 1
            /\ LET done == add_files(NoStore, clear_store_file(store_files[agent]),
                                     order, 1, fails_at, saving)
                   reached == IF fails_at = 0 THEN Len(order) ELSE fails_at - 1
               IN  /\ vector_stores' = [vector_stores EXCEPT
                                           ![RouterService][agent] = done.store]
                   /\ store_files' = [store_files EXCEPT ![agent] = done.file]
                   /\ last' = [NoOp EXCEPT
                          !.op = "reindex", !.service = RouterService,
                          !.agent = agent,
                          !.failure = IF fails_at # 0 THEN "loading"
                                      ELSE IF saving # "saved" THEN "saving"
                                      ELSE "",
                          !.raised = done.raised,
                          !.before = vector_stores[RouterService][agent],
                          !.before_file = store_files[agent],
                          !.status = IF done.raised
                                     THEN handler_error_status("error")
                                     ELSE "success"]
                   /\ cleared' = IF reached = 0 THEN cleared \cup {agent}
                                 ELSE cleared \ {agent}
                   /\ removed' = removed \
                                   {<<agent, order[i]>> : i \in 1..reached}
       ELSE /\ order = << >> /\ fails_at = 0 /\ saving = "saved"
            /\ last' = [NoOp EXCEPT
                   !.op = "reindex", !.service = RouterService, !.agent = agent,
                   !.failure = "validation", !.before = StoreOf(RouterService, agent),
                   !.status = handler_error_status("404")]
            /\ UNCHANGED <<vector_stores, store_files, cleared, removed>>
    /\ ops' = ops + 1
    /\ UNCHANGED <<agent_cache, dataset, chat_only_vars>>

\* main.py lines 74-99, run after the routers were imported: every dataset
\* folder with loadable documents gets a new persisted index
startup_files(files, order_of, saving) ==
    [a \in DOMAIN files |->
        IF dataset[a].exists /\ ChunksOfFiles(order_of[a]) # << >>
        THEN save_store(files[a], Faiss(ChunksOfFiles(order_of[a])), saving)
        ELSE files[a]]

\* the process starts again: rag.py line 24 builds the router's service from
\* what is persisted, no agent is built yet, then the startup event runs
\* (a startup that raises leaves no running process and is not a state)
Restart(order_of, saving) ==
    /\ ops < MaxOps
    /\ \A a \in StoreAgents : order_of[a] \in Orders(dataset[a].files)
    /\ saving # "saved" => \E a \in StoreAgents : dataset[a].files # {}
    /\ vector_stores' =
          [s \in Services |->
              IF s = RouterService THEN load_existing_stores(store_files)
              ELSE [a \in StoreAgents |-> NoStore]]
    /\ store_files' = startup_files(store_files, order_of, saving)
    /\ agent_cache' = {}
    /\ last' = [NoOp EXCEPT !.op = "restart", !.service = RouterService,
                   !.failure = IF saving # "saved" THEN "saving" ELSE ""]
    /\ cleared' = {}
    /\ removed' = {}
    /\ ops' = ops + 1
    /\ UNCHANGED <<dataset, chat_only_vars>>

\* every listing order of at most the files of the model
FileOrders == UNION {Orders(files) : files \in SUBSET Filenames}

IngestNext ==
    \/ \E agent \in UploadNames, filename \in UploadFilenames,
          loading \in {"ok", "fails"}, embedding \in {"ok", "fails"},
          saving_created \in SaveOutcomes, saving \in SaveOutcomes :
          upload_document(agent, filename, loading, embedding, saving_created,
                          saving)
    \/ \E agent \in UploadNames, order \in FileOrders, fails_at \in 0..2,
          saving \in SaveOutcomes :
          reindex_agent_documents(agent, order, fails_at, saving)
    \/ \E order_of \in [StoreAgents -> FileOrders], saving \in SaveOutcomes :
          Restart(order_of, saving)
    \/ \E agent \in StoreAgents, query \in StoreQueries :
          Search(agent, query, search_k, 0, "ok")

IngestSpec == StoreInit /\ [][IngestNext]_vars

-----------------------------------------------------------------------------
(* Claims about ingestion, checked under IngestSpec *)

\* C21: an agent whose persisted index cannot be loaded at startup is
\* treated as having no index: search on it returns empty, and the next add
\* for it succeeds, building a fresh index from the added chunks
C21_CorruptIndexIsNoIndex ==
    /\ (last.op = "search" /\ last.before.kind = "none") => last.results = << >>
    /\ (/\ last.op = "upload_document" /\ last.before.kind = "none"
        /\ last.documents # << >> /\ last.failure = "")
       => /\ ~last.raised
          /\ last.status = "success"
          /\ vector_stores[RouterService][last.agent] = Faiss(last.documents)

\* the indexes a reindex of the agent can end with when it is complete
CompleteRebuilds(agent) ==
    {IF order = << >> THEN NoStore ELSE Faiss(ChunksOfFiles(order)) :
        order \in Orders(dataset[agent].files)}

\* C25: the index a search reads after a reindex of the agent is the one
\* from before the reindex or the completely rebuilt one, never an empty or
\* partly rebuilt one, also when a file fails to load midway
C25_ReindexIsAllOrNothing ==
    (last.op = "reindex" /\ last.agent \in StoreAgents) =>
        \/ vector_stores[RouterService][last.agent] = last.before
        \/ vector_stores[RouterService][last.agent] \in CompleteRebuilds(last.agent)

\* C28: an upload with an agent outside the five accepted ones or with a
\* file type outside the accepted ones is answered 400, writes no file to
\* the dataset directory and leaves every index unchanged
C28_InvalidUploadIs400 ==
    [][(Did("upload_document")
        /\ ~UploadValidity[last'.agent, last'.filename])
          => /\ last'.status = "400"
             /\ dataset' = dataset
             /\ vector_stores' = vector_stores
             /\ store_files' = store_files]_vars

====
